---- MODULE Spec2Model ----
(***************************************************************************)
(* Model of the collection / analysis pipeline of business-data-scrape.    *)
(*                                                                         *)
(*   Spec        the collection jobs: scrape_keyword_task (Celery task     *)
(*               with retries), the POST /scrape/<keyword_id> route and    *)
(*               its run_scraper thread, and the browser session handling  *)
(*               of AdvancedScraperService.scrape_google_maps_advanced.    *)
(*   SpecScroll  one call of AdvancedScraperService.scroll_and_collect     *)
(*               against a feed that shows any items and heights.          *)
(*   SpecScore   IntelligentWebsiteAnalyzer.calculate_overall_score on     *)
(*               every presence pattern of the five sub-scores.            *)
(*   SpecGrade   WebsiteAnalysis rows and their overall_grade.             *)
(*   SpecListing a SearchResult row, its fields and its quality flags.     *)
(*   SpecCache   CacheManager objects of several processes in front of     *)
(*               one Redis server, with a clock.                           *)
(*   SpecOptimal IntelligentScheduler.calculate_optimal_time called in     *)
(*               several Python processes.                                 *)
(*   SpecSched   the jobs of IntelligentScheduler: scheduled, executed     *)
(*               by the scheduler thread, cancelled.                       *)
(*   SpecBatch   IntelligentScheduler.schedule_batch_processing and the    *)
(*               daily jobs it registers.                                  *)
(*   SpecMetrics the per-keyword history kept by                           *)
(*               update_performance_metrics.                               *)
(*   SpecOptimize optimize_schedule_based_on_performance over recorded     *)
(*               runs and stored rows.                                     *)
(*   SpecEnrich  AdvancedScraperService.enrich_business_data on a list of  *)
(*               records.                                                  *)
(*   SpecAnalysis analyze_website_task and the cache in front of it.       *)
(*   SpecRevoke  the collection jobs with cancel_task and worker death,    *)
(*               under weak fairness of the jobs' own steps.               *)
(*                                                                         *)
(* The parts have variables of their own; each specification starts the    *)
(* other parts in their initial state and leaves them alone.               *)
(***************************************************************************)
EXTENDS Integers, Sequences, FiniteSets, TLC

(***************************************************************************)
(* Bounds of the model.                                                    *)
(***************************************************************************)
NumKeywords == 1
NumTasks == 1
MaxThreads == 1
MaxFound == 1

(***************************************************************************)
(* Program constants.                                                      *)
(***************************************************************************)
\* @celery.task(bind=True, max_retries=3, ...)
max_retries == 3

Keywords == 1 .. NumKeywords
\* keyword ids a task can be queued with; 0 is an id with no Keyword row
KeywordIds == 0 .. NumKeywords
TaskIds == 1 .. NumTasks

VARIABLES
    kwStatus,   \* Keyword.status, per keyword row
    task,       \* per Celery task instance of scrape_keyword_task
    threads,    \* run_scraper threads alive, per keyword
    \* scroll_and_collect
    scPc,                   \* "idle", "loop", "done", "raised"
    max_results,            \* the argument
    results,                \* the accumulated list
    last_height,
    no_new_results_count,
    returned,               \* the returned list
    prevHeight,             \* height the feed had at the previous step, -1 before
    quiet,                  \* consecutive steps without new items or height change
    \* calculate_overall_score
    analysis_data,          \* sub-score per component, Absent when missing
    overall_score,          \* the returned score, Absent before the call
    \* WebsiteAnalysis rows
    rowScore,               \* WebsiteAnalysis.score, Absent before creation
    rowGrade,               \* value read from overall_grade, "" before the read
    \* SearchResult row
    listing,                \* the persisted row: fields that hold a value, flags
    \* CacheManager
    now,                    \* time.time(), in whole seconds
    local_cache,            \* self.local_cache of each CacheManager
    redis_client,           \* whether self.redis_client is set, per manager
    redisUp,                \* whether the Redis server answers
    redisStore,             \* what the Redis server holds, per key
    lastSet,                \* the latest set of each key: time, ttl, value
    lastOp,                 \* the cache operation just done and what it returned
    \* IntelligentScheduler.calculate_optimal_time
    strHash,                \* hash() of each keyword text, per Python process
    history,                \* what the stored results of each keyword amount to
    changed,                \* the stored results changed since the last call
    lastCall,               \* the latest call, its result and the one before
    \* IntelligentScheduler jobs
    scheduled_tasks,        \* status of each job's record; "removed" once deleted
    schedule_jobs,          \* task ids the schedule library holds a daily job for
    running_job,            \* job the scheduler thread is executing, 0 if none
    performance_metrics,    \* number of records kept for the keyword
    cancelOf,               \* status a job had when its cancel returned True
    finishedAfterCancel,    \* jobs whose execution ran to its end after that
    \* IntelligentScheduler.schedule_batch_processing
    batch_input,            \* the arguments and the time of the call
    batch_jobs,             \* the daily jobs registered: batch, time of day, first run
    \* IntelligentScheduler.performance_metrics
    run_count,              \* executions of execute_scheduled_scraping so far, per keyword
    metrics_list,           \* performance_metrics[keyword_id]: the runs recorded, by number
    raised_runs,            \* executions that raised before the scrape returned
    \* IntelligentScheduler.optimize_schedule_based_on_performance
    recorded,               \* performance_metrics of each keyword: success of each recorded run
    rows,                   \* stored SearchResult rows of each keyword: all, and those with title and website
    lastPass,               \* the latest optimization pass: whom it rescheduled, and the rolling rates then
    \* AdvancedScraperService.enrich_business_data
    enrich_input,           \* the argument results: one record per listing
    enriched_results,       \* the list built so far
    enrich_faults,          \* what failed while each record was enriched
    enrich_pc,              \* "loop", "returned" or "raised"
    \* analyze_website_task
    anRedis,                \* what Redis holds under the website's cache key
    anConn,                 \* whether the Redis server answers
    anDictWrite,            \* what redis-py does with a dict value: "rejected" or "text"
    anRetries,              \* request.retries of the task
    anRows,                 \* WebsiteAnalysis rows stored so far
    lastRun                 \* the latest execution of the task

jobVars == <<kwStatus, task, threads>>
scrollVars == <<scPc, max_results, results, last_height, no_new_results_count,
                returned, prevHeight, quiet>>
scoreVars == <<analysis_data, overall_score>>
gradeVars == <<rowScore, rowGrade>>
listingVars == <<listing>>
cacheVars == <<now, local_cache, redis_client, redisUp, redisStore, lastSet,
               lastOp>>
optimalVars == <<strHash, history, changed, lastCall>>
schedVars == <<scheduled_tasks, schedule_jobs, running_job,
               performance_metrics, cancelOf, finishedAfterCancel>>
batchVars == <<batch_input, batch_jobs>>
metricsVars == <<run_count, metrics_list, raised_runs>>
optimizeVars == <<recorded, rows, lastPass>>
enrichVars == <<enrich_input, enriched_results, enrich_faults, enrich_pc>>
analysisVars == <<anRedis, anConn, anDictWrite, anRetries, anRows, lastRun>>
vars == <<jobVars, scrollVars, scoreVars, gradeVars, listingVars, cacheVars,
    optimalVars, schedVars, batchVars, metricsVars, optimizeVars, enrichVars,
    analysisVars>>

\* what the actions of each part leave alone
nonJobVars == <<scrollVars, scoreVars, gradeVars, listingVars, cacheVars,
    optimalVars, schedVars, batchVars, metricsVars, optimizeVars, enrichVars,
    analysisVars>>
nonScrollVars == <<jobVars, scoreVars, gradeVars, listingVars, cacheVars,
    optimalVars, schedVars, batchVars, metricsVars, optimizeVars, enrichVars,
    analysisVars>>
nonScoreVars == <<jobVars, scrollVars, gradeVars, listingVars, cacheVars,
    optimalVars, schedVars, batchVars, metricsVars, optimizeVars, enrichVars,
    analysisVars>>
nonGradeVars == <<jobVars, scrollVars, scoreVars, listingVars, cacheVars,
    optimalVars, schedVars, batchVars, metricsVars, optimizeVars, enrichVars,
    analysisVars>>
nonListingVars == <<jobVars, scrollVars, scoreVars, gradeVars, cacheVars,
    optimalVars, schedVars, batchVars, metricsVars, optimizeVars, enrichVars,
    analysisVars>>
nonCacheVars == <<jobVars, scrollVars, scoreVars, gradeVars, listingVars,
    optimalVars, schedVars, batchVars, metricsVars, optimizeVars, enrichVars,
    analysisVars>>
nonOptimalVars == <<jobVars, scrollVars, scoreVars, gradeVars, listingVars,
    cacheVars, schedVars, batchVars, metricsVars, optimizeVars, enrichVars,
    analysisVars>>
nonSchedVars == <<jobVars, scrollVars, scoreVars, gradeVars, listingVars,
    cacheVars, optimalVars, batchVars, metricsVars, optimizeVars, enrichVars,
    analysisVars>>
nonBatchVars == <<jobVars, scrollVars, scoreVars, gradeVars, listingVars,
    cacheVars, optimalVars, schedVars, metricsVars, optimizeVars, enrichVars,
    analysisVars>>
nonMetricsVars == <<jobVars, scrollVars, scoreVars, gradeVars, listingVars,
    cacheVars, optimalVars, schedVars, batchVars, optimizeVars, enrichVars,
    analysisVars>>
nonOptimizeVars == <<jobVars, scrollVars, scoreVars, gradeVars, listingVars,
    cacheVars, optimalVars, schedVars, batchVars, metricsVars, enrichVars,
    analysisVars>>
nonEnrichVars == <<jobVars, scrollVars, scoreVars, gradeVars, listingVars,
    cacheVars, optimalVars, schedVars, batchVars, metricsVars, optimizeVars,
    analysisVars>>
nonAnalysisVars == <<jobVars, scrollVars, scoreVars, gradeVars, listingVars,
    cacheVars, optimalVars, schedVars, batchVars, metricsVars, optimizeVars,
    enrichVars>>

\* pcs at which an execution of scrape_keyword_task is between its first
\* commit (line 25) and its return or raise
RunningPcs == {"create", "load", "scroll", "save"}

IdleTask ==
    [kw |-> 0, pc |-> "idle", retries |-> 0, attempts |-> 0, alerts |-> 0,
     captcha |-> TRUE, driver |-> "None", procs |-> 0,
     ret |-> "none", n |-> 0, fail |-> "none", gathered |-> 0, saved |-> 0]

InitJobs ==
    /\ kwStatus = [k \in Keywords |-> "pending"]
    /\ task = [t \in TaskIds |-> IdleTask]
    /\ threads = [k \in Keywords |-> 0]

(***************************************************************************)
(* scrape_keyword_task: the except branch (lines 56-82).                   *)
(***************************************************************************)
ShouldRetry_OffByOne(retries) == retries <= max_retries

\* line 66: if self.request.retries < self.max_retries
ShouldRetry(retries) == retries < max_retries

FailureAlerts_EveryAttempt(retries) == 1

\* lines 66-76: send_system_alert('scraping_failure', ...) only in the else
\* branch; the retry branch raises self.retry before any notification
FailureAlerts(retries) == IF ShouldRetry(retries) THEN 0 ELSE 1

\* lines 60-63: keyword = Keyword.query.get(keyword_id); if keyword: 'error'
StatusAfterFailure(st, k) ==
    IF k \in Keywords THEN [st EXCEPT ![k] = "error"] ELSE st

\* lines 56-82 on the task's own record: Celery's self.retry re-queues the
\* same task id with request.retries + 1; otherwise the task returns
\* {'status': 'failed'}
ExceptBranch(r) ==
    LET cleared == [r EXCEPT !.driver = "None", !.procs = 0, !.ret = "none",
                             !.n = 0, !.fail = "none", !.gathered = 0,
                             !.saved = 0]
    IN IF ShouldRetry(r.retries)
       THEN [cleared EXCEPT !.pc = "queued", !.retries = @ + 1,
                            !.alerts = @ + FailureAlerts(r.retries)]
       ELSE [cleared EXCEPT !.pc = "failed",
                            !.alerts = @ + FailureAlerts(r.retries)]

(***************************************************************************)
(* scrape_google_maps_advanced: the handlers and the finally clause.       *)
(***************************************************************************)
scrape_except_TimeoutOnly(exc) == IF exc = "Timeout" THEN "empty" ELSE "raised"

\* lines 118-123: except TimeoutException: return []
\*                except Exception: return []
scrape_except(exc) == "empty"

\* lines 124-126: finally: if driver: driver.quit()
finally_quit(driver, procs) == IF driver = "live" THEN procs - 1 ELSE procs

\* lines 75-87: handle_captcha sleeps 30 s once when the marker is present and
\* returns whether it was; it does not look at the page again and raises
\* nothing.  No code of the repository calls it.
handle_captcha(marker) == [slept |-> marker, detected |-> marker]

(***************************************************************************)
(* Job starts.                                                             *)
(***************************************************************************)
\* batch_scraping_task: scrape_keyword_task.apply_async(args=[keyword_id])
Submit(t, k) ==
    /\ task[t].pc = "idle"
    /\ \A u \in TaskIds : u < t => task[u].pc # "idle"
    /\ task' = [task EXCEPT ![t] = [@ EXCEPT !.kw = k, !.pc = "queued"]]
    /\ UNCHANGED <<kwStatus, threads, nonJobVars>>

\* scrape_keyword_task, lines 14-25 (and 56-82 when the keyword is missing):
\* a worker takes the task; no test of keyword.status precedes line 24
TaskStart(t) ==
    /\ task[t].pc = "queued"
    /\ LET r == [task[t] EXCEPT !.attempts = @ + 1]
       IN IF r.kw \in Keywords
          THEN /\ kwStatus' = [kwStatus EXCEPT ![r.kw] = "in_progress"]
               /\ task' = [task EXCEPT ![t] = [r EXCEPT !.pc = "create"]]
          ELSE \* raise ValueError(f"Keyword {keyword_id} not found")
               /\ kwStatus' = StatusAfterFailure(kwStatus, r.kw)
               /\ task' = [task EXCEPT ![t] =
                               ExceptBranch([r EXCEPT !.captcha = FALSE])]
    /\ UNCHANGED <<threads, nonJobVars>>

(***************************************************************************)
(* scrape_google_maps_advanced, called at scraping.py line 29.             *)
(***************************************************************************)
\* lines 91-95 with create_stealth_driver (40-73): webdriver.Chrome may fail
\* to launch; the two execute_script calls run after the browser process
\* exists and before the driver is returned to the caller's local variable
CreateDriver(t) ==
    /\ task[t].pc = "create"
    /\ \E o \in {"ok", "launch_fail", "stealth_fail"} :
         LET r == task[t]
             started == IF o = "launch_fail" THEN 0 ELSE 1
             drv == IF o = "ok" THEN "live" ELSE "None"
         IN IF o = "ok"
            THEN task' = [task EXCEPT ![t] =
                     [r EXCEPT !.pc = "load", !.driver = drv, !.procs = started]]
            ELSE task' = [task EXCEPT ![t] =
                     [r EXCEPT !.pc = "save", !.driver = "None",
                               !.procs = finally_quit(drv, started),
                               !.ret = scrape_except("WebDriverException"),
                               !.n = 0, !.captcha = FALSE,
                               !.fail = IF o = "launch_fail" THEN "create"
                                                             ELSE "stealth"]]
    /\ UNCHANGED <<kwStatus, threads, nonJobVars>>

\* lines 96-108: set_page_load_timeout, driver.get, handle_popups and the wait
\* for div[role="feed"].  The class defines no handle_popups, so line 103 can
\* only raise; a page that shows a CAPTCHA never shows the feed and the wait
\* ends in TimeoutException.  handle_captcha is not called.
LoadPage(t) ==
    /\ task[t].pc = "load"
    /\ \E o \in {"ok", "timeout", "error", "captcha"} :
         LET r == task[t]
             exc == IF o = "error" THEN "WebDriverException" ELSE "Timeout"
         IN IF o = "ok"
            THEN task' = [task EXCEPT ![t] =
                     [r EXCEPT !.pc = "scroll", !.captcha = FALSE]]
            ELSE task' = [task EXCEPT ![t] =
                     [r EXCEPT !.pc = "save", !.driver = "None",
                               !.procs = finally_quit(r.driver, r.procs),
                               !.ret = scrape_except(exc), !.n = 0,
                               !.captcha = (r.captcha /\ o = "captcha"),
                               !.fail = IF o = "captcha" THEN "wait" ELSE "load"]]
    /\ UNCHANGED <<kwStatus, threads, nonJobVars>>

\* lines 110-126: scroll_and_collect, enrich_business_data, return, finally.
\* found is the number of listings held in scroll_and_collect's results (or
\* in the local results of line 111) when the step ended or raised; the two
\* handlers return [] whatever was held.
ScrollAndEnrich(t) ==
    /\ task[t].pc = "scroll"
    /\ \E o \in {"ok", "scroll_fail", "enrich_fail"}, found \in 0 .. MaxFound :
         LET r == task[t]
         IN /\ task' = [task EXCEPT ![t] =
                     [r EXCEPT !.pc = "save", !.driver = "None",
                               !.procs = finally_quit(r.driver, r.procs),
                               !.ret = IF o = "ok" THEN "list"
                                       ELSE scrape_except("Exception"),
                               !.n = IF o = "ok" THEN found ELSE 0,
                               !.gathered = found,
                               !.fail = IF o = "ok" THEN "none"
                                        ELSE IF o = "scroll_fail" THEN "scroll"
                                        ELSE "enrich"]]
    /\ UNCHANGED <<kwStatus, threads, nonJobVars>>

\* scrape_keyword_task, lines 29-54 after the scraper returned, and 56-82
\* when saving fails (SearchResult(**result_data), db.session.commit) or the
\* scraper raised.  saved is the number of rows a completed execution
\* stored: one per element of the returned list (lines 33-36, 42).
TaskFinish(t) ==
    /\ task[t].pc = "save"
    /\ \E fault \in BOOLEAN :
         LET r == task[t]
         IN IF fault \/ r.ret = "raised"
            THEN /\ kwStatus' = StatusAfterFailure(kwStatus, r.kw)
                 /\ task' = [task EXCEPT ![t] = ExceptBranch(r)]
            ELSE /\ kwStatus' = [kwStatus EXCEPT ![r.kw] = "completed"]
                 /\ task' = [task EXCEPT ![t] =
                          [r EXCEPT !.pc = "completed", !.driver = "None",
                                    !.procs = 0, !.ret = "none", !.n = 0,
                                    !.fail = "none", !.gathered = 0,
                                    !.saved = r.n]]
    /\ UNCHANGED <<threads, nonJobVars>>

(***************************************************************************)
(* routes/main.py: POST /scrape/<keyword_id> and its thread.               *)
(***************************************************************************)
\* scrape_keyword, lines 59-72
ScrapeRoute(k) ==
    /\ threads[k] < MaxThreads
    /\ kwStatus' = [kwStatus EXCEPT ![k] = "in_progress"]
    /\ threads' = [threads EXCEPT ![k] = @ + 1]
    /\ UNCHANGED <<task, nonJobVars>>

\* run_scraper, lines 77-105
RunScraperFinish(k) ==
    /\ threads[k] > 0
    /\ kwStatus' = [kwStatus EXCEPT ![k] = "completed"]
    /\ threads' = [threads EXCEPT ![k] = @ - 1]
    /\ UNCHANGED <<task, nonJobVars>>

\* routes/tasks.py cancel_task, lines 30-43: AsyncResult(task_id).revoke(
\* terminate=True) has the worker kill the process that executes the task;
\* a worker that dies mid-run ends the execution the same way.  Neither the
\* except branch of scrape_keyword_task nor the finally clause of the
\* scraper runs, and cancel_task itself writes no keyword status.
Terminate(t) ==
    /\ task[t].pc \in RunningPcs
    /\ task' = [task EXCEPT ![t] = [@ EXCEPT !.pc = "revoked"]]
    /\ UNCHANGED <<kwStatus, threads, nonJobVars>>

JobNext ==
    \/ \E t \in TaskIds, k \in KeywordIds : Submit(t, k)
    \/ \E t \in TaskIds : TaskStart(t)
    \/ \E t \in TaskIds : CreateDriver(t)
    \/ \E t \in TaskIds : LoadPage(t)
    \/ \E t \in TaskIds : ScrollAndEnrich(t)
    \/ \E t \in TaskIds : TaskFinish(t)
    \/ \E k \in Keywords : ScrapeRoute(k)
    \/ \E k \in Keywords : RunScraperFinish(k)

(***************************************************************************)
(* AdvancedScraperService.scroll_and_collect (scraper.py 128-167).         *)
(***************************************************************************)
NumTitles == 2
MaxVisible == 2
MaxHeight == 1
MaxResultsArg == 3

\* line 133: max_no_new_results = 3
max_no_new_results == 3

\* what extract_business_data yields for one feed item: extract_visible_results
\* (line 179) keeps only the items that have a title
\* the fields of a listing other than its title are one field with two values
Links == {"x", "y"}
Items == [title : 1 .. NumTitles, link : Links]
VisibleLists == UNION {[1 .. n -> Items] : n \in 0 .. MaxVisible}
Heights == 0 .. MaxHeight

InitScrollIdle ==
    /\ scPc = "idle"
    /\ max_results = 0
    /\ results = <<>>
    /\ last_height = 0
    /\ no_new_results_count = 0
    /\ returned = <<>>
    /\ prevHeight = -1
    /\ quiet = 0

\* lines 128-133, for a call scroll_and_collect(driver, max_results, keyword)
InitScroll ==
    /\ scPc = "loop"
    /\ max_results \in 0 .. MaxResultsArg
    /\ results = <<>>
    /\ last_height = 0
    /\ no_new_results_count = 0
    /\ returned = <<>>
    /\ prevHeight = -1
    /\ quiet = 0

LoopCond_NoCounter(res, maxr, cnt) == Len(res) < maxr

\* line 135: while len(results) < max_results and
\*                 no_new_results_count < max_no_new_results
LoopCond(res, maxr, cnt) == Len(res) < maxr /\ cnt < max_no_new_results

\* line 140: new_results = [r for r in current_results if r not in results]
\* (dict equality, against the list as it was before this step)
new_results(current, res) ==
    SelectSeq(current, LAMBDA r : \A i \in DOMAIN res : res[i] # r)

\* line 167: results[:max_results]
Truncate(res, maxr) ==
    SubSeq(res, 1, IF Len(res) < maxr THEN Len(res) ELSE maxr)

\* one iteration of the loop, lines 135-165: extract_visible_results,
\* find_element, execute_script(scrollTo), sleep, execute_script(scrollHeight);
\* every driver call of the function is made inside an iteration
ScrollStep ==
    /\ scPc = "loop"
    /\ LoopCond(results, max_results, no_new_results_count)
    /\ \E current \in VisibleLists, new_height \in Heights :
         LET fresh == new_results(current, results)
             afterItems == IF fresh = <<>> THEN no_new_results_count + 1 ELSE 0
             sameHeight == (prevHeight = -1 \/ new_height = prevHeight)
         IN /\ results' = results \o fresh
            /\ no_new_results_count' =
                   IF new_height = last_height THEN afterItems + 1 ELSE afterItems
            /\ last_height' = new_height
            /\ prevHeight' = new_height
            /\ quiet' = IF fresh = <<>> /\ sameHeight THEN quiet + 1 ELSE 0
    /\ UNCHANGED <<scPc, max_results, returned, nonScrollVars>>

\* lines 149-159: find_element or execute_script raises; the exception leaves
\* scroll_and_collect
ScrollRaise ==
    /\ scPc = "loop"
    /\ LoopCond(results, max_results, no_new_results_count)
    /\ scPc' = "raised"
    /\ UNCHANGED <<max_results, results, last_height, no_new_results_count,
                   returned, prevHeight, quiet, nonScrollVars>>

\* line 167, once the loop condition is false
ScrollReturn ==
    /\ scPc = "loop"
    /\ ~ LoopCond(results, max_results, no_new_results_count)
    /\ scPc' = "done"
    /\ returned' = Truncate(results, max_results)
    /\ UNCHANGED <<max_results, results, last_height, no_new_results_count,
                   prevHeight, quiet, nonScrollVars>>

ScrollNext == ScrollStep \/ ScrollRaise \/ ScrollReturn

(***************************************************************************)
(* IntelligentWebsiteAnalyzer.calculate_overall_score (analyzer.py         *)
(* 403-425).                                                               *)
(***************************************************************************)
\* line 423: min(100, ...)
MaxScore == 100

Absent == -1

Components == {"seo_score", "security_score", "performance_score",
               "credibility_score", "basic_score"}

\* lines 405-411, in hundredths
Weight(c) ==
    CASE c = "seo_score" -> 25
      [] c = "security_score" -> 20
      [] c = "performance_score" -> 20
      [] c = "credibility_score" -> 20
      [] c = "basic_score" -> 15

\* sub-score values the inputs are drawn from
SubScoreValues == {0, 1, 33, 67, MaxScore}

RECURSIVE SumOver(_, _)
SumOver(S, f) ==
    IF S = {} THEN 0
    ELSE LET c == CHOOSE x \in S : TRUE IN f[c] + SumOver(S \ {c}, f)

\* line 417: if component in analysis_data
PresentComponents(d) == {c \in Components : d[c] # Absent}

calculate_overall_score_NoClamp(d) ==
    LET P == PresentComponents(d)
        total_weight == SumOver(P, [c \in P |-> Weight(c)])
        total_score == SumOver(P, [c \in P |-> d[c] * Weight(c)])
    IN IF total_weight > 0 THEN (total_score * 100) \div total_weight ELSE 0

\* lines 413-425: total_score and total_weight over the present components,
\* then min(100, int((total_score / total_weight) * 100)), else 0.  The
\* weights are carried in hundredths, which leaves the quotient unchanged.
calculate_overall_score(d) ==
    LET P == PresentComponents(d)
        total_weight == SumOver(P, [c \in P |-> Weight(c)])
        total_score == SumOver(P, [c \in P |-> d[c] * Weight(c)])
        scaled == (total_score * 100) \div total_weight
    IN IF total_weight > 0
       THEN IF scaled < MaxScore THEN scaled ELSE MaxScore
       ELSE 0

InitScoreIdle ==
    /\ analysis_data = [c \in Components |-> Absent]
    /\ overall_score = Absent

InitScore ==
    /\ analysis_data \in [Components -> SubScoreValues \cup {Absent}]
    /\ overall_score = Absent

\* comprehensive_analysis line 48:
\* analysis_results['overall_score'] = self.calculate_overall_score(...)
CalculateOverallScore ==
    /\ overall_score = Absent
    /\ overall_score' = calculate_overall_score(analysis_data)
    /\ UNCHANGED <<analysis_data, nonScoreVars>>

ScoreNext == CalculateOverallScore

(***************************************************************************)
(* WebsiteAnalysis.overall_grade (models/__init__.py 248-262).             *)
(***************************************************************************)
RowIds == {"a", "b"}

overall_grade_Strict(score) ==
    IF score > 90 THEN "A+"
    ELSE IF score > 80 THEN "A"
    ELSE IF score > 70 THEN "B"
    ELSE IF score > 60 THEN "C"
    ELSE IF score > 50 THEN "D"
    ELSE "F"

overall_grade_NoPlus(score) ==
    IF score >= 90 THEN "A"
    ELSE IF score >= 80 THEN "B"
    ELSE IF score >= 70 THEN "C"
    ELSE IF score >= 60 THEN "D"
    ELSE "F"

\* lines 249-262
overall_grade(score) ==
    IF score >= 90 THEN "A+"
    ELSE IF score >= 80 THEN "A"
    ELSE IF score >= 70 THEN "B"
    ELSE IF score >= 60 THEN "C"
    ELSE IF score >= 50 THEN "D"
    ELSE "F"

InitGradeIdle ==
    /\ rowScore = [i \in RowIds |-> Absent]
    /\ rowGrade = [i \in RowIds |-> ""]

\* WebsiteAnalysis(score=s), the column of line 216
CreateAnalysis(i, s) ==
    /\ rowScore[i] = Absent
    /\ rowScore' = [rowScore EXCEPT ![i] = s]
    /\ UNCHANGED <<rowGrade, nonGradeVars>>

\* a read of analysis.overall_grade
ReadGrade(i) ==
    /\ rowScore[i] # Absent
    /\ rowGrade[i] = ""
    /\ rowGrade' = [rowGrade EXCEPT ![i] = overall_grade(rowScore[i])]
    /\ UNCHANGED <<rowScore, nonGradeVars>>

GradeNext ==
    \/ \E i \in RowIds, s \in 0 .. MaxScore : CreateAnalysis(i, s)
    \/ \E i \in RowIds : ReadGrade(i)

(***************************************************************************)
(* SearchResult and its quality flags (models/__init__.py 104-169).        *)
(***************************************************************************)
\* the columns the quality flags are about (lines 111-123): website, phone
\* and email, and the five social URLs
ContactFields == {"phone", "email"}
SocialFields == {"facebook", "instagram", "linkedin", "twitter", "youtube"}
ListingFields == {"website"} \cup ContactFields \cup SocialFields

NoListing ==
    [exists |-> FALSE, set |-> {}, has_website |-> FALSE,
     has_contact |-> FALSE, has_social |-> FALSE]

InitListing == listing = NoListing

\* lines 164-168: the three flags as update_quality_flags computes them
update_quality_flags(row) ==
    [row EXCEPT
        !.has_website = ("website" \in row.set),
        !.has_contact = ("phone" \in row.set \/ "email" \in row.set),
        !.has_social = (row.set \cap
                          {"facebook", "instagram", "linkedin", "twitter"} # {})]

\* SearchResult(**fields); session.add; session.commit (scraping.py 33-42,
\* test_models.py 38-44): the flag columns take their default False
\* (lines 131-133); nothing calls update_quality_flags on insert
CreateListing(fields) ==
    /\ ~ listing.exists
    /\ listing' = [NoListing EXCEPT !.exists = TRUE, !.set = fields]
    /\ UNCHANGED nonListingVars

\* result.<field> = value (or None) followed by a commit, as BaseModel.save
\* (lines 19-27) does; the flags are columns of their own and keep their value
AssignField(f, v) ==
    /\ listing.exists
    /\ listing' = [listing EXCEPT
                      !.set = IF v THEN @ \cup {f} ELSE @ \ {f}]
    /\ UNCHANGED nonListingVars

\* result.update_quality_flags(), lines 164-169 (recompute, then save)
UpdateQualityFlags ==
    /\ listing.exists
    /\ listing' = update_quality_flags(listing)
    /\ UNCHANGED nonListingVars

ListingNext ==
    \/ \E fields \in SUBSET ListingFields : CreateListing(fields)
    \/ \E f \in ListingFields, v \in BOOLEAN : AssignField(f, v)
    \/ UpdateQualityFlags

(***************************************************************************)
(* CacheManager (optimization/__init__.py 10-93): a dict per manager in    *)
(* front of one Redis server.  A manager is built wherever the cache is    *)
(* used (tasks/analysis.py 24, line 99), so several of them share Redis.   *)
(***************************************************************************)
Managers == {"A", "B"}
CacheKeys == {"k"}
\* Python values handed to set, written as literals: a string, an integer,
\* a dict (which Redis cannot store)
CacheValues == {"'a'", "7", "{}"}
\* expire_seconds; 0 is falsy and means no expiry (line 56)
TtlValues == {0, 1}

\* seconds a value served by Redis is kept in the manager's dict (line 47)
LocalTtl == 300
\* last second of the clock
MaxClock == 2

NoEntry == [has |-> FALSE, value |-> "None", expiry |-> Absent]

\* what redis-py stores and, with decode_responses=True (line 22), hands
\* back: the text of a string or number; a dict raises DataError
redis_encode(v) ==
    CASE v = "7" -> "'7'"
      [] v = "{}" -> "DataError"
      [] OTHER -> v

\* GET on the server: the value while the key has not expired, else None
redis_get(k) ==
    LET e == redisStore[k]
    IN  IF e.has /\ (e.expiry = Absent \/ now < e.expiry)
        THEN e.value ELSE "None"

\* line 34-36: the local entry is there and has not expired
LocalHit(m, k) ==
    LET e == local_cache[m][k]
    IN  e.has /\ (e.expiry = Absent \/ now < e.expiry)

\* lines 41-44: the Redis call went through and returned a truthy value
RedisHit(m, k) ==
    /\ redis_client[m]
    /\ redisUp
    /\ redis_get(k) \notin {"None", "''"}

\* what get returns, lines 33-52
get_value(m, k) ==
    IF LocalHit(m, k) THEN local_cache[m][k].value
    ELSE IF RedisHit(m, k) THEN redis_get(k)
    ELSE "None"

\* the manager's dict after get: an expired entry is dropped (line 39), a
\* value served by Redis is kept for LocalTtl seconds (line 47)
get_local_cache(m, k) ==
    IF LocalHit(m, k) THEN local_cache[m]
    ELSE IF RedisHit(m, k)
         THEN [local_cache[m] EXCEPT ![k] =
                  [has |-> TRUE, value |-> redis_get(k),
                   expiry |-> now + LocalTtl]]
    ELSE [local_cache[m] EXCEPT ![k] = NoEntry]

\* line 56
Expiry(ttl) == IF ttl # 0 THEN now + ttl ELSE Absent

set_local_cache_RedisOnly(m, k, v, ttl) == local_cache[m]

\* the manager's dict after set, lines 59-60
set_local_cache(m, k, v, ttl) ==
    [local_cache[m] EXCEPT ![k] =
        [has |-> TRUE, value |-> v, expiry |-> Expiry(ttl)]]

\* no cache operation yet, or none since the clock moved
NoOp ==
    [op |-> "none", m |-> "A", k |-> "k", ret |-> "None", value |-> "None",
     ttl |-> 0, afterSet |-> FALSE]

\* __init__, lines 11-15, of every manager; setup_redis (lines 17-27) leaves
\* redis_client None when the server did not answer the ping
InitCacheWith(clients, up) ==
    /\ now = 0
    /\ local_cache = [m \in Managers |-> [k \in CacheKeys |-> NoEntry]]
    /\ redis_client = clients
    /\ redisUp = up
    /\ redisStore = [k \in CacheKeys |-> NoEntry]
    /\ lastSet = [k \in CacheKeys |-> [at |-> Absent, ttl |-> 0, value |-> "None"]]
    /\ lastOp = NoOp

InitCacheIdle == InitCacheWith([m \in Managers |-> FALSE], FALSE)
InitCache == \E clients \in [Managers -> BOOLEAN], up \in BOOLEAN :
                InitCacheWith(clients, up)

\* CacheManager.get, lines 29-52
Get(m, k) ==
    /\ local_cache' = [local_cache EXCEPT ![m] = get_local_cache(m, k)]
    /\ lastOp' = [op |-> "get", m |-> m, k |-> k,
                  ret |-> get_value(m, k),
                  value |-> lastOp.value, ttl |-> lastOp.ttl,
                  afterSet |-> /\ lastOp.op = "set"
                               /\ lastOp.m = m
                               /\ lastOp.k = k]
    /\ UNCHANGED <<now, redis_client, redisUp, redisStore, lastSet,
                   nonCacheVars>>

\* CacheManager.set, lines 54-70; a failing Redis call is logged and dropped
Set(m, k, v, ttl) ==
    /\ local_cache' = [local_cache EXCEPT ![m] = set_local_cache(m, k, v, ttl)]
    /\ redisStore' =
          IF redis_client[m] /\ redisUp /\ redis_encode(v) # "DataError"
          THEN [redisStore EXCEPT ![k] =
                   [has |-> TRUE, value |-> redis_encode(v),
                    expiry |-> Expiry(ttl)]]
          ELSE redisStore
    /\ lastSet' = [lastSet EXCEPT ![k] = [at |-> now, ttl |-> ttl, value |-> v]]
    /\ lastOp' = [op |-> "set", m |-> m, k |-> k, ret |-> "None",
                  value |-> v, ttl |-> ttl, afterSet |-> FALSE]
    /\ UNCHANGED <<now, redis_client, redisUp, nonCacheVars>>

OtherOp(m, k) ==
    [op |-> "other", m |-> m, k |-> k, ret |-> "None",
     value |-> "None", ttl |-> 0, afterSet |-> FALSE]

\* CacheManager.delete, lines 72-82
Delete(m, k) ==
    /\ local_cache' = [local_cache EXCEPT ![m][k] = NoEntry]
    /\ redisStore' = IF redis_client[m] /\ redisUp
                     THEN [redisStore EXCEPT ![k] = NoEntry]
                     ELSE redisStore
    /\ lastOp' = OtherOp(m, k)
    /\ UNCHANGED <<now, redis_client, redisUp, lastSet, nonCacheVars>>

\* CacheManager.clear, lines 84-93
Clear(m) ==
    /\ local_cache' = [local_cache EXCEPT ![m] = [k \in CacheKeys |-> NoEntry]]
    /\ redisStore' = IF redis_client[m] /\ redisUp
                     THEN [k \in CacheKeys |-> NoEntry]
                     ELSE redisStore
    /\ lastOp' = OtherOp(m, "k")
    /\ UNCHANGED <<now, redis_client, redisUp, lastSet, nonCacheVars>>

\* a second passes
Tick ==
    /\ now < MaxClock
    /\ now' = now + 1
    /\ lastOp' = NoOp
    /\ UNCHANGED <<local_cache, redis_client, redisUp, redisStore, lastSet,
                   nonCacheVars>>

\* the Redis server goes away or comes back; calls on it raise meanwhile
\* (caught at lines 49, 69, 81, 92)
RedisUpDown ==
    /\ redisUp' = ~ redisUp
    /\ UNCHANGED <<now, local_cache, redis_client, redisStore, lastSet,
                   lastOp, nonCacheVars>>

CacheNext ==
    \/ \E m \in Managers, k \in CacheKeys : Get(m, k)
    \/ \E m \in Managers, k \in CacheKeys, v \in CacheValues, ttl \in TtlValues :
          Set(m, k, v, ttl)
    \/ \E m \in Managers, k \in CacheKeys : Delete(m, k)
    \/ \E m \in Managers : Clear(m)
    \/ Tick
    \/ RedisUpDown

(***************************************************************************)
(* IntelligentScheduler.calculate_optimal_time (scheduler.py 65-105).      *)
(* api.py 15 builds one scheduler per Python process that serves the app.  *)
(***************************************************************************)
Processes == {"p", "q"}
\* Keyword.keyword of two rows: one word, and more than three words
KeywordTexts == {"plumber", "best pizza place near me"}
Priorities == {"high", "medium", "low", "urgent"}
\* what SearchResult.query.filter_by(keyword_id=...) amounts to: no rows,
\* rows with a success rate below 0.5, rows with a success rate of 0.5 or more
Histories == {"none", "poor", "good"}
\* values hash() of a str can take; which one it takes is fixed when the
\* interpreter starts (string hashing is salted per process)
HashValues == {-2, 61}

\* len(keyword.keyword.split()), line 100
word_count(text) == IF text = "plumber" THEN 1 ELSE 5

\* lines 78-85
get_base_scraping_time(priority) ==
    CASE priority = "high" -> 2
      [] priority = "medium" -> 4
      [] priority = "low" -> 6
      [] OTHER -> 4

calculate_keyword_adjustment_Later(text) ==
    (IF history[text] = "poor" THEN 2 ELSE 0)
        + (IF word_count(text) > 3 THEN 1 ELSE 0)

\* lines 87-105
calculate_keyword_adjustment(text) ==
    (IF history[text] = "poor" THEN 2 ELSE 0)
        + (IF word_count(text) > 3 THEN -1 ELSE 0)

Digit == <<"0", "1", "2", "3", "4", "5", "6", "7", "8", "9">>
\* the format spec :02d, for 0..99
Format02d(n) == <<Digit[(n \div 10) + 1], Digit[(n % 10) + 1]>>

\* lines 65-76, run in process proc
calculate_optimal_time(proc, text, priority) ==
    LET base_hour == get_base_scraping_time(priority)
        adjustment == calculate_keyword_adjustment(text)
        adjusted_hour == (base_hour + adjustment) % 24
        random_minute == strHash[proc][text] % 60
    IN  Format02d(adjusted_hour) \o <<":">> \o Format02d(random_minute)

NoCall ==
    [made |-> FALSE, text |-> "plumber", priority |-> "medium", ret |-> <<>>,
     repeat |-> FALSE, prev |-> <<>>]

InitOptimalWith(h) ==
    /\ strHash = h
    /\ history = [t \in KeywordTexts |-> "none"]
    /\ changed = FALSE
    /\ lastCall = NoCall

InitOptimalIdle ==
    InitOptimalWith([p \in Processes |-> [t \in KeywordTexts |-> 61]])
InitOptimal ==
    \E h \in [Processes -> [KeywordTexts -> HashValues]] : InitOptimalWith(h)

\* a call of calculate_optimal_time in process proc (line 44); repeat says
\* that it has the text and priority of the call before it and that the
\* keyword's stored results did not change in between
CalculateOptimalTime(proc, text, priority) ==
    /\ lastCall' =
          [made |-> TRUE, text |-> text, priority |-> priority,
           ret |-> calculate_optimal_time(proc, text, priority),
           repeat |-> /\ lastCall.made
                      /\ lastCall.text = text
                      /\ lastCall.priority = priority
                      /\ ~ changed,
           prev |-> lastCall.ret]
    /\ changed' = FALSE
    /\ UNCHANGED <<strHash, history, nonOptimalVars>>

\* results of a keyword are stored or deleted (tasks/scraping.py 33-42)
StoreResults(text, h) ==
    /\ history[text] # h
    /\ history' = [history EXCEPT ![text] = h]
    /\ changed' = TRUE
    /\ UNCHANGED <<strHash, lastCall, nonOptimalVars>>

OptimalNext ==
    \/ \E proc \in Processes, text \in KeywordTexts, priority \in Priorities :
          CalculateOptimalTime(proc, text, priority)
    \/ \E text \in KeywordTexts, h \in Histories : StoreResults(text, h)

(***************************************************************************)
(* IntelligentScheduler jobs (scheduler.py 28-63, 107-128, 205-243), for   *)
(* one keyword.  _run_scheduler runs the due jobs one after the other in   *)
(* its own thread; requests schedule and cancel from other threads.        *)
(***************************************************************************)
\* task ids schedule_optimal_scraping can hand out (line 45)
NumJobs == 2
\* records update_performance_metrics keeps (lines 225-226)
MetricsKept == 10

JobIds == 1..NumJobs

InitSched ==
    /\ scheduled_tasks = [j \in JobIds |-> "none"]
    /\ schedule_jobs = {}
    /\ running_job = 0
    /\ performance_metrics = 0
    /\ cancelOf = [j \in JobIds |-> "none"]
    /\ finishedAfterCancel = {}

\* lines 205-211: the record with this task id, if the list has one, takes
\* the status
update_task_status(tasks, j, status) ==
    IF tasks[j] \in {"none", "removed"} THEN tasks
    ELSE [tasks EXCEPT ![j] = status]

\* lines 213-226
update_performance_metrics(n) == IF n + 1 > MetricsKept THEN MetricsKept ELSE n + 1

\* schedule_optimal_scraping, lines 38-63, with a fresh task id: a daily job
\* tagged with the id, and a record with status 'scheduled'
ScheduleOptimalScraping(j) ==
    /\ scheduled_tasks[j] = "none"
    /\ schedule_jobs' = schedule_jobs \cup {j}
    /\ scheduled_tasks' = [scheduled_tasks EXCEPT ![j] = "scheduled"]
    /\ UNCHANGED <<running_job, performance_metrics, cancelOf,
                   finishedAfterCancel, nonSchedVars>>

\* run_pending (line 31) finds the job due, today or on a later day, and
\* calls execute_scheduled_scraping: line 111
ExecuteStart(j) ==
    /\ running_job = 0
    /\ j \in schedule_jobs
    /\ running_job' = j
    /\ scheduled_tasks' = update_task_status(scheduled_tasks, j, "running")
    /\ UNCHANGED <<schedule_jobs, performance_metrics, cancelOf,
                   finishedAfterCancel, nonSchedVars>>

\* execute_scheduled_scraping from the scrape to its end: lines 114-123 when
\* nothing raises, lines 125-127 when something does (the keyword row is gone)
ExecuteFinish(j, ok) ==
    /\ running_job = j
    /\ running_job' = 0
    /\ performance_metrics' =
          IF ok THEN update_performance_metrics(performance_metrics)
          ELSE performance_metrics
    /\ scheduled_tasks' =
          update_task_status(scheduled_tasks, j,
                             IF ok THEN "completed" ELSE "failed")
    /\ finishedAfterCancel' =
          IF cancelOf[j] # "none" /\ ok THEN finishedAfterCancel \cup {j}
          ELSE finishedAfterCancel
    /\ UNCHANGED <<schedule_jobs, cancelOf, nonSchedVars>>

\* cancel_scheduled_task, lines 232-243, for a job that has a record: the
\* record is dropped from the list and the daily job cleared
CancelScheduledTask(j) ==
    /\ scheduled_tasks[j] \notin {"none", "removed"}
    /\ scheduled_tasks' = [scheduled_tasks EXCEPT ![j] = "removed"]
    /\ schedule_jobs' = schedule_jobs \ {j}
    /\ cancelOf' = [cancelOf EXCEPT ![j] = scheduled_tasks[j]]
    /\ UNCHANGED <<running_job, performance_metrics, finishedAfterCancel,
                   nonSchedVars>>

SchedNext ==
    \/ \E j \in JobIds : ScheduleOptimalScraping(j)
    \/ \E j \in JobIds : ExecuteStart(j)
    \/ \E j \in JobIds, ok \in BOOLEAN : ExecuteFinish(j, ok)
    \/ \E j \in JobIds : CancelScheduledTask(j)

(***************************************************************************)
(* IntelligentScheduler.schedule_batch_processing (scheduler.py 130-143).  *)
(* Times are minutes; a time of day is a minute of the day.                *)
(***************************************************************************)
\* keyword ids, length of keyword_ids, batch_size
NumBatchIds == 2
MaxBatchList == 3
MaxBatchSize == 2
\* minutes of a day: strftime("%H:%M") keeps the time of day only
DayMinutes == 1440
\* delay_minutes, and the time of day of the call: 00:00, 10:15, 23:45
DelayValues == {30, 720}
CallTimes == {0, 615, 1425}

BatchLists == UNION {[1 .. n -> 1 .. NumBatchIds] : n \in 0 .. MaxBatchList}

\* line 132: keyword_ids[i:i + batch_size] for i in range(0, len, batch_size)
Batches(ids, size) ==
    LET n == Len(ids)
        count == (n + size - 1) \div size
    IN  [b \in 1 .. count |->
            SubSeq(ids, (b - 1) * size + 1,
                   IF b * size < n THEN b * size ELSE n)]

\* lines 135-136 for the batch with index i (from 0): the time of day of
\* now + i * delay_minutes
time_str(now_, i, delay) == (now_ + i * delay) % DayMinutes

\* schedule.every().day.at(t), registered at time of day now_: the job first
\* runs at the next time the clock shows t, which is today only when t is
\* later than now_, else tomorrow; counted in minutes from today's midnight
first_run(now_, t) == IF t > now_ THEN t ELSE t + DayMinutes

InitBatchWith(in) ==
    /\ batch_input = in
    /\ batch_jobs = <<>>

InitBatchIdle ==
    InitBatchWith([keyword_ids |-> <<>>, batch_size |-> 1,
                   delay_minutes |-> 30, now |-> 0, called |-> FALSE])
InitBatch ==
    \E ids \in BatchLists, size \in 1 .. MaxBatchSize, delay \in DelayValues,
       t \in CallTimes :
        InitBatchWith([keyword_ids |-> ids, batch_size |-> size,
                       delay_minutes |-> delay, now |-> t, called |-> FALSE])

\* schedule_batch_processing, lines 130-143
ScheduleBatchProcessing ==
    /\ ~ batch_input.called
    /\ batch_input' = [batch_input EXCEPT !.called = TRUE]
    /\ batch_jobs' =
          LET batches == Batches(batch_input.keyword_ids, batch_input.batch_size)
          IN  [b \in 1 .. Len(batches) |->
                  LET t == time_str(batch_input.now, b - 1,
                                    batch_input.delay_minutes)
                  IN  [batch |-> batches[b], at |-> t,
                       next_run |-> first_run(batch_input.now, t)]]
    /\ UNCHANGED nonBatchVars

BatchNext == ScheduleBatchProcessing

(***************************************************************************)
(* The rolling history IntelligentScheduler.performance_metrics            *)
(* (scheduler.py 107-128, 213-226).  A record is named by the number of    *)
(* the run that wrote it, which stands for its timestamp.                  *)
(***************************************************************************)
\* executions per keyword, and executions that raise
MaxRuns == 11
MaxRaised == 1

MetricKeywords == {"k1", "k2"}

InitMetrics ==
    /\ run_count = [k \in MetricKeywords |-> 0]
    /\ metrics_list = [k \in MetricKeywords |-> <<>>]
    /\ raised_runs = 0

\* lines 217-226: append the record, keep the last MetricsKept
append_metric(list, entry) ==
    LET l == Append(list, entry)
    IN  IF Len(l) > MetricsKept
        THEN SubSeq(l, Len(l) - MetricsKept + 1, Len(l))
        ELSE l

\* execute_scheduled_scraping for keyword k, lines 107-128, as far as the
\* metrics go: line 117 is reached when the lines before it raised nothing
\* (the scraper returns [] on its own failures); when Keyword.query.get
\* fails or returns None the except branch records nothing
ExecuteRun(k, raised) ==
    /\ run_count[k] < MaxRuns
    /\ raised => raised_runs < MaxRaised
    /\ run_count' = [run_count EXCEPT ![k] = @ + 1]
    /\ raised_runs' = IF raised THEN raised_runs + 1 ELSE raised_runs
    /\ metrics_list' =
          IF raised THEN metrics_list
          ELSE [metrics_list EXCEPT ![k] = append_metric(@, run_count[k] + 1)]
    /\ UNCHANGED nonMetricsVars

MetricsNext == \E k \in MetricKeywords, raised \in BOOLEAN : ExecuteRun(k, raised)

(***************************************************************************)
(* The optimization pass (scheduler.py 150-182) next to the two kinds of   *)
(* data about a keyword: the runs recorded in performance_metrics and the  *)
(* SearchResult rows stored for it.                                        *)
(***************************************************************************)
\* recorded runs and stored rows per keyword
MaxRecorded == 2
MaxRows == 2

OptKeywords == {"k1", "k2"}

InitOptimize ==
    /\ recorded = [k \in OptKeywords |-> <<>>]
    /\ rows = [k \in OptKeywords |-> [all |-> 0, good |-> 0]]
    /\ lastPass = [done |-> FALSE, rescheduled |-> {}, low |-> {}, ran |-> {}]

\* execute_scheduled_scraping reaching line 117: a record with
\* success = result_count > 0 (line 221); the scraped listings are counted,
\* not stored
RecordRun(k, success) ==
    /\ Len(recorded[k]) < MaxRecorded
    /\ recorded' = [recorded EXCEPT ![k] = Append(@, success)]
    /\ UNCHANGED <<rows, lastPass, nonOptimizeVars>>

\* a row is stored for the keyword (tasks/scraping.py 33-42); good says that
\* it has a title and a website
StoreRow(k, good) ==
    /\ rows[k].all < MaxRows
    /\ rows' = [rows EXCEPT ![k] = [all |-> @.all + 1,
                                    good |-> @.good + (IF good THEN 1 ELSE 0)]]
    /\ UNCHANGED <<recorded, lastPass, nonOptimizeVars>>

\* calculate_success_rate (lines 176-182) of the keyword's rows, compared
\* with 0.6 at line 154: 0 for no rows, else good / all
RowRateLow(k) ==
    IF rows[k].all = 0 THEN TRUE
    ELSE 10 * rows[k].good < 6 * rows[k].all

\* the share of successes in the recorded runs is below 0.6
RollingRateLow(k) ==
    LET n == Len(recorded[k])
        s == Cardinality({i \in 1 .. n : recorded[k][i]})
    IN  10 * s < 6 * n

\* optimize_schedule_based_on_performance, lines 150-157, with
\* analyze_scraping_performance, lines 159-174.  rescheduled are the keywords
\* line 156 passes to reschedule_keyword; the class defines no method of that
\* name, and the call is taken to move that keyword, and no other
OptimizePass ==
    /\ lastPass' =
          [done |-> TRUE,
           rescheduled |-> {k \in OptKeywords : RowRateLow(k)},
           low |-> {k \in OptKeywords : RollingRateLow(k)},
           ran |-> {k \in OptKeywords : recorded[k] # <<>>}]
    /\ UNCHANGED <<recorded, rows, nonOptimizeVars>>

OptimizeNext ==
    \/ \E k \in OptKeywords, success \in BOOLEAN : RecordRun(k, success)
    \/ \E k \in OptKeywords, good \in BOOLEAN : StoreRow(k, good)
    \/ OptimizePass

(***************************************************************************)
(* AdvancedScraperService.enrich_business_data and discover_social_media   *)
(* (scraper.py 284-343).                                                   *)
(***************************************************************************)
\* length of the list handed to enrich_business_data
MaxRecords == 2

\* two of the five platforms of lines 320-326
Platforms == {"facebook", "youtube"}
\* one platform's search: a matching url, or an exception
SearchOutcomes == {"found", "error"}

\* a listing: whether title and website hold a value
EnrichInputs ==
    UNION {[1 .. n -> [title : BOOLEAN, website : BOOLEAN]] :
              n \in 0 .. MaxRecords}

InitEnrichWith(in) ==
    /\ enrich_input = in
    /\ enriched_results = <<>>
    /\ enrich_faults = <<>>
    /\ enrich_pc = "loop"

InitEnrichIdle == InitEnrichWith(<<>>)
InitEnrich == \E in \in EnrichInputs : InitEnrichWith(in)

\* discover_social_media, lines 312-343: a platform whose search raised is
\* skipped (lines 337-339), the others are searched all the same
discover_social_media(search) == {p \in Platforms : search[p] = "found"}

\* the body of the loop for one record, lines 288-309: the three steps run
\* in one try block, so a step that raises ends the block; the except
\* branch appends the record as it is by then
enrich_one(idx, rec, search, webFail, catFail) ==
    LET social == IF rec.title THEN discover_social_media(search) ELSE {}
        webRuns == rec.website
        webDone == webRuns /\ ~ webFail
        catRuns == ~ (webRuns /\ webFail)
    IN  [idx |-> idx, social |-> social, website_data |-> webDone,
         category |-> catRuns /\ ~ catFail]

\* one iteration of the loop at line 288.  preliminary_website_analysis and
\* categorize_business are called at lines 297 and 301; either may raise
\* (the class defines neither).  A step that does not run raises nothing.
EnrichRecord(search, webFail, catFail) ==
    /\ enrich_pc = "loop"
    /\ Len(enriched_results) < Len(enrich_input)
    /\ LET idx == Len(enriched_results) + 1
           rec == enrich_input[idx]
       IN  /\ webFail => rec.website
           /\ catFail => ~ webFail
           /\ ~ rec.title => search = [p \in Platforms |-> "found"]
           /\ enriched_results' =
                 Append(enriched_results,
                        enrich_one(idx, rec, search, webFail, catFail))
           /\ enrich_faults' =
                 Append(enrich_faults,
                        [search |-> search, web |-> webFail, cat |-> catFail])
    /\ UNCHANGED <<enrich_input, enrich_pc, nonEnrichVars>>

\* line 310: return enriched_results
EnrichReturn ==
    /\ enrich_pc = "loop"
    /\ Len(enriched_results) = Len(enrich_input)
    /\ enrich_pc' = "returned"
    /\ UNCHANGED <<enrich_input, enriched_results, enrich_faults, nonEnrichVars>>

EnrichNext ==
    \/ \E search \in [Platforms -> SearchOutcomes], webFail, catFail \in BOOLEAN :
          EnrichRecord(search, webFail, catFail)
    \/ EnrichReturn

(***************************************************************************)
(* analyze_website_task (tasks/analysis.py 10-85) for one website.  Every  *)
(* execution builds its own CacheManager (line 24), whose dict starts      *)
(* empty, so only Redis can hold an entry from an earlier execution.       *)
(***************************************************************************)
\* line 10: max_retries=2
analysis_max_retries == 2
\* line 39: cache_manager.set(cache_key, analysis_data, 3600)
AnalysisTtl == 3600
\* WebsiteAnalysis rows stored
MaxAnalysisRows == 3

\* line 25: cache_key = f"analysis_{hash(result.website)}"; the hash of a str
\* is salted per process, so each worker process has a key of its own
AnalysisWorkers == {"w1", "w2"}

NoRedisEntry == [has |-> FALSE, value |-> "None", ttl |-> 0]

NoRun ==
    [ran |-> FALSE, worker |-> "w1", conn |-> FALSE, hit |-> FALSE,
     passes |-> 0, analysed |-> FALSE, stored |-> "none", status |-> "none"]

\* redis-py either refuses a dict (DataError, swallowed at lines 61-68 of
\* optimization/__init__.py) or, in its older releases, stores its text
InitAnalysisWith(conn, dictWrite) ==
    /\ anRedis = [w \in AnalysisWorkers |-> NoRedisEntry]
    /\ anConn = conn
    /\ anDictWrite = dictWrite
    /\ anRetries = 0
    /\ anRows = 0
    /\ lastRun = NoRun

InitAnalysisIdle == InitAnalysisWith(FALSE, "rejected")
InitAnalysis ==
    \E conn \in BOOLEAN, dictWrite \in {"rejected", "text"} :
        InitAnalysisWith(conn, dictWrite)

\* line 26 with a fresh CacheManager: what get returns
cached_analysis(w) ==
    IF anConn /\ anRedis[w].has THEN anRedis[w].value ELSE "None"

\* lines 74-85: retry while request.retries < max_retries, else 'failed'
analysis_except(retries) ==
    IF retries < analysis_max_retries THEN "retry" ELSE "failed"

\* one execution of analyze_website_task, lines 15-85.  A hit hands back
\* the str Redis returns (decode_responses=True), and line 44 calls .get on
\* it with a key: AttributeError.  On a miss comprehensive_analysis runs
\* once and returns its dict or raises.
AnalyzeWebsiteTask(w, analysis) ==
    /\ anRows < MaxAnalysisRows
    /\ LET hit == cached_analysis(w) # "None"
           analysed == ~ hit /\ analysis = "dict"
           status == IF analysed THEN "completed" ELSE analysis_except(anRetries)
           written == analysed /\ anConn /\ anDictWrite = "text"
       IN  /\ hit => analysis = "dict"
           /\ anRedis' =
                 IF written
                 THEN [anRedis EXCEPT ![w] =
                          [has |-> TRUE, value |-> "text", ttl |-> AnalysisTtl]]
                 ELSE anRedis
           /\ anRows' = IF analysed THEN anRows + 1 ELSE anRows
           /\ anRetries' = IF status = "retry" THEN anRetries + 1 ELSE 0
           /\ lastRun' =
                 [ran |-> TRUE, worker |-> w, conn |-> anConn, hit |-> hit,
                  passes |-> IF hit THEN 0 ELSE 1,
                  analysed |-> analysed,
                  stored |-> IF analysed THEN "fresh" ELSE "none",
                  status |-> status]
    /\ UNCHANGED <<anConn, anDictWrite, nonAnalysisVars>>

\* the entry's TTL runs out in Redis
AnalysisEntryExpires(w) ==
    /\ anRedis[w].has
    /\ anRedis' = [anRedis EXCEPT ![w] = NoRedisEntry]
    /\ lastRun' = NoRun
    /\ UNCHANGED <<anConn, anDictWrite, anRetries, anRows, nonAnalysisVars>>

\* the Redis server goes away or comes back between executions; each
\* CacheManager pings it when it is built (optimization/__init__.py 15-25)
AnalysisRedisUpDown ==
    /\ anConn' = ~ anConn
    /\ lastRun' = NoRun
    /\ UNCHANGED <<anRedis, anDictWrite, anRetries, anRows, nonAnalysisVars>>

AnalysisNext ==
    \/ \E w \in AnalysisWorkers, analysis \in {"dict", "raise"} :
          AnalyzeWebsiteTask(w, analysis)
    \/ \E w \in AnalysisWorkers : AnalysisEntryExpires(w)
    \/ AnalysisRedisUpDown

(***************************************************************************)
(* Specifications.                                                         *)
(***************************************************************************)
Init == InitJobs /\ InitScrollIdle /\ InitScoreIdle /\ InitGradeIdle
            /\ InitListing /\ InitCacheIdle /\ InitOptimalIdle
            /\ InitSched
            /\ InitBatchIdle
            /\ InitMetrics
            /\ InitOptimize
            /\ InitEnrichIdle
            /\ InitAnalysisIdle
Next == JobNext
Spec == Init /\ [][Next]_vars

ScrollInit == InitJobs /\ InitScroll /\ InitScoreIdle /\ InitGradeIdle
                  /\ InitListing /\ InitCacheIdle /\ InitOptimalIdle
            /\ InitSched
            /\ InitBatchIdle
            /\ InitMetrics
            /\ InitOptimize
            /\ InitEnrichIdle
            /\ InitAnalysisIdle
SpecScroll == ScrollInit /\ [][ScrollNext]_vars

ScoreInit == InitJobs /\ InitScrollIdle /\ InitScore /\ InitGradeIdle
                 /\ InitListing /\ InitCacheIdle /\ InitOptimalIdle
            /\ InitSched
            /\ InitBatchIdle
            /\ InitMetrics
            /\ InitOptimize
            /\ InitEnrichIdle
            /\ InitAnalysisIdle
SpecScore == ScoreInit /\ [][ScoreNext]_vars

GradeInit == InitJobs /\ InitScrollIdle /\ InitScoreIdle /\ InitGradeIdle
                 /\ InitListing /\ InitCacheIdle /\ InitOptimalIdle
            /\ InitSched
            /\ InitBatchIdle
            /\ InitMetrics
            /\ InitOptimize
            /\ InitEnrichIdle
            /\ InitAnalysisIdle
SpecGrade == GradeInit /\ [][GradeNext]_vars

ListingInit == InitJobs /\ InitScrollIdle /\ InitScoreIdle /\ InitGradeIdle
                   /\ InitListing /\ InitCacheIdle /\ InitOptimalIdle
            /\ InitSched
            /\ InitBatchIdle
            /\ InitMetrics
            /\ InitOptimize
            /\ InitEnrichIdle
            /\ InitAnalysisIdle
SpecListing == ListingInit /\ [][ListingNext]_vars

CacheInit == InitJobs /\ InitScrollIdle /\ InitScoreIdle /\ InitGradeIdle
                 /\ InitListing /\ InitCache /\ InitOptimalIdle
            /\ InitSched
            /\ InitBatchIdle
            /\ InitMetrics
            /\ InitOptimize
            /\ InitEnrichIdle
            /\ InitAnalysisIdle
SpecCache == CacheInit /\ [][CacheNext]_vars

OptimalInit == InitJobs /\ InitScrollIdle /\ InitScoreIdle /\ InitGradeIdle
                   /\ InitListing /\ InitCacheIdle /\ InitOptimal
                   /\ InitSched
            /\ InitBatchIdle
            /\ InitMetrics
            /\ InitOptimize
            /\ InitEnrichIdle
            /\ InitAnalysisIdle
SpecOptimal == OptimalInit /\ [][OptimalNext]_vars

SchedInit == InitJobs /\ InitScrollIdle /\ InitScoreIdle /\ InitGradeIdle
                 /\ InitListing /\ InitCacheIdle /\ InitOptimalIdle
                 /\ InitSched
            /\ InitBatchIdle
            /\ InitMetrics
            /\ InitOptimize
            /\ InitEnrichIdle
            /\ InitAnalysisIdle
SpecSched == SchedInit /\ [][SchedNext]_vars

BatchInit == InitJobs /\ InitScrollIdle /\ InitScoreIdle /\ InitGradeIdle
            /\ InitListing /\ InitCacheIdle /\ InitOptimalIdle
            /\ InitSched
            /\ InitBatch
            /\ InitMetrics
            /\ InitOptimize
            /\ InitEnrichIdle
            /\ InitAnalysisIdle
SpecBatch == BatchInit /\ [][BatchNext]_vars

MetricsInit == InitJobs /\ InitScrollIdle /\ InitScoreIdle /\ InitGradeIdle
            /\ InitListing /\ InitCacheIdle /\ InitOptimalIdle
            /\ InitSched
            /\ InitBatchIdle
            /\ InitMetrics
            /\ InitOptimize
            /\ InitEnrichIdle
            /\ InitAnalysisIdle
SpecMetrics == MetricsInit /\ [][MetricsNext]_vars

OptimizeInit == InitJobs /\ InitScrollIdle /\ InitScoreIdle /\ InitGradeIdle
            /\ InitListing /\ InitCacheIdle /\ InitOptimalIdle
            /\ InitSched
            /\ InitBatchIdle
            /\ InitMetrics
            /\ InitOptimize
            /\ InitEnrichIdle
            /\ InitAnalysisIdle
SpecOptimize == OptimizeInit /\ [][OptimizeNext]_vars

EnrichInit == InitJobs /\ InitScrollIdle /\ InitScoreIdle /\ InitGradeIdle
            /\ InitListing /\ InitCacheIdle /\ InitOptimalIdle
            /\ InitSched
            /\ InitBatchIdle
            /\ InitMetrics
            /\ InitOptimize
            /\ InitEnrich
            /\ InitAnalysisIdle
SpecEnrich == EnrichInit /\ [][EnrichNext]_vars

AnalysisInit == InitJobs /\ InitScrollIdle /\ InitScoreIdle /\ InitGradeIdle
            /\ InitListing /\ InitCacheIdle /\ InitOptimalIdle
            /\ InitSched
            /\ InitBatchIdle
            /\ InitMetrics
            /\ InitOptimize
            /\ InitEnrichIdle
            /\ InitAnalysis
SpecAnalysis == AnalysisInit /\ [][AnalysisNext]_vars

\* The jobs with cancellation and worker death.  A worker takes every
\* queued task and the code of a running task or thread goes on to its
\* end; requests, cancellations and crashes are the environment's and may
\* never come.
RevokeNext == JobNext \/ \E t \in TaskIds : Terminate(t)
TaskStep(t) ==
    \/ TaskStart(t)
    \/ CreateDriver(t)
    \/ LoadPage(t)
    \/ ScrollAndEnrich(t)
    \/ TaskFinish(t)
SpecRevoke ==
    /\ Init
    /\ [][RevokeNext]_vars
    /\ \A t \in TaskIds : WF_vars(TaskStep(t))
    /\ \A k \in Keywords : WF_vars(RunScraperFinish(k))

(***************************************************************************)
(* Properties.                                                             *)
(***************************************************************************)
\* collection runs in progress for keyword k: executions of
\* scrape_keyword_task past line 25 and run_scraper threads
RunsFor(k) ==
    Cardinality({t \in TaskIds : task[t].kw = k /\ task[t].pc \in RunningPcs})
        + threads[k]

\* C1: for every keyword at most one collection run is in progress at any
\* instant, whatever the interleaving of task executions and route requests.
AtMostOneRunPerKeyword == \A k \in Keywords : RunsFor(k) <= 1

CaptchaJobEndsFailed ==
    \A t \in TaskIds :
        (task[t].captcha /\ task[t].attempts > 0
            /\ task[t].pc \in {"completed", "failed"})
        => (task[t].pc = "failed" /\ task[t].retries = 0 /\ task[t].alerts = 1)

\* C7: scrape_google_maps_advanced never raises, and when session creation,
\* stealth setup, page load, the wait for the feed, scrolling or enrichment
\* failed it returned the empty list.
ScrapeNeverRaises ==
    \A t \in TaskIds :
        /\ task[t].ret # "raised"
        /\ (task[t].pc = "save" /\ task[t].fail # "none")
               => (task[t].ret = "empty" /\ task[t].n = 0)

ScrapeFailedAfterLoad ==
    \E t \in TaskIds :
        /\ task[t].pc = "save"
        /\ task[t].fail \in {"scroll", "enrich"}
        /\ task[t].ret = "empty"

\* C8: when scrape_google_maps_advanced has returned, no browser process it
\* started is still alive.
SessionsReleased ==
    \A t \in TaskIds : task[t].pc = "save" => task[t].procs = 0

\* C5: the loop never runs more than N = 3 consecutive steps in which the
\* feed gave no new item and its height did not change; the loop's steps are
\* the only driver calls.
ScrollStopsWhenQuiet == quiet <= max_no_new_results

ScrollStoppedQuiet ==
    /\ scPc = "done"
    /\ quiet >= 2
    /\ Len(results) > 0
    /\ Len(results) < max_results

\* C6: no two accumulated listings, and no two returned listings, have the
\* same title.
NoDuplicateTitles ==
    /\ \A i, j \in DOMAIN results :
           i # j => results[i].title # results[j].title
    /\ \A i, j \in DOMAIN returned :
           i # j => returned[i].title # returned[j].title

\* C9: for sub-scores in [0,100], any of them absent, the returned overall
\* score is an integer in [0,100].
OverallScoreInRange ==
    overall_score # Absent => overall_score \in 0 .. 100

OverallScorePartialData ==
    /\ overall_score \in 1 .. 99
    /\ \E c \in Components : analysis_data[c] = Absent
    /\ \E c \in Components : analysis_data[c] \in 1 .. 100

\* the grade table of the claim
TableGrade(s) ==
    CASE s >= 90 -> "A+"
      [] s >= 80 /\ s < 90 -> "A"
      [] s >= 70 /\ s < 80 -> "B"
      [] s >= 60 /\ s < 70 -> "C"
      [] s >= 50 /\ s < 60 -> "D"
      [] s < 50 -> "F"

GradeRank(g) ==
    CASE g = "F" -> 0 [] g = "D" -> 1 [] g = "C" -> 2
      [] g = "B" -> 3 [] g = "A" -> 4 [] g = "A+" -> 5

StatusStepAllowed(a, b) ==
    \/ a = b
    \/ a = "pending" /\ b = "in_progress"
    \/ a = "in_progress" /\ b \in {"completed", "error"}
    \/ a = "error" /\ b = "in_progress"

\* C17: a keyword's status only moves pending -> in_progress -> completed or
\* error, and back only from error to in_progress; a completed keyword stays
\* completed.
KeywordStatusForward ==
    [][\A k \in Keywords : StatusStepAllowed(kwStatus[k], kwStatus'[k])]_vars

\* C19: when the loop has stopped short of max_results, the last N = 3 steps
\* each had no new item and no height change.
StopsOnlyAfterThreeQuietSteps ==
    (scPc = "done" /\ Len(results) < max_results)
        => quiet >= max_no_new_results

\* C20: the returned score is the (truncated) weighted mean of the present
\* sub-scores over the sum of the present weights; in particular it is x
\* when every present sub-score is x.
OverallScoreIsWeightedMean ==
    LET P == PresentComponents(analysis_data)
        tw == SumOver(P, [c \in P |-> Weight(c)])
        ts == SumOver(P, [c \in P |-> analysis_data[c] * Weight(c)])
    IN (overall_score # Absent /\ P # {})
        => (overall_score * tw <= ts /\ ts < (overall_score + 1) * tw)

\* C18: the flags of a persisted listing agree with its fields.
QualityFlagsAgree ==
    listing.exists =>
        /\ listing.has_website = ("website" \in listing.set)
        /\ listing.has_contact = (listing.set \cap ContactFields # {})
        /\ listing.has_social = (listing.set \cap SocialFields # {})

\* C12: a get that immediately follows set(k, v, ttl) with ttl > 0 on the
\* same manager (no operation and no time in between) returns v.
GetAfterSetReturnsValue ==
    (lastOp.op = "get" /\ lastOp.afterSet /\ lastOp.ttl > 0)
        => lastOp.ret = lastOp.value

\* the round trip happened with Redis out of reach, and with a value Redis
\* cannot store
GetAfterSetWithoutRedis ==
    /\ lastOp.op = "get" /\ lastOp.afterSet /\ lastOp.ttl > 0
    /\ ~ redisUp
    /\ lastOp.ret = lastOp.value

\* C13: a get at or after T + t of a key last set at T with TTL t > 0 does
\* not return the value.
NoValueAfterTtl ==
    (/\ lastOp.op = "get"
     /\ lastSet[lastOp.k].ttl > 0
     /\ now >= lastSet[lastOp.k].at + lastSet[lastOp.k].ttl)
        => lastOp.ret # lastSet[lastOp.k].value

\* C14: a call of calculate_optimal_time with the text and priority of the
\* call before it, the keyword's stored results unchanged in between, returns
\* the same HH:MM string.
OptimalTimeRepeats ==
    (lastCall.made /\ lastCall.repeat) => lastCall.ret = lastCall.prev

\* the status changes the job state machine has; dropping the record is not
\* counted as a change of status
SchedStepAllowed(old, new) ==
    \/ new = old
    \/ new = "removed"
    \/ old = "none" /\ new = "scheduled"
    \/ old = "scheduled" /\ new \in {"running", "cancelled"}
    \/ old = "running" /\ new \in {"completed", "failed", "cancelled"}

\* C15: a scheduled job's status changes only scheduled -> running ->
\* completed or failed, or to cancelled from scheduled or running; from
\* completed, failed or cancelled it never changes again.
JobStatusForward ==
    [][\A j \in JobIds :
          SchedStepAllowed(scheduled_tasks[j], scheduled_tasks'[j])]_vars

\* C16: once the cancel of a scheduled or running job has returned, the job
\* is in state cancelled, no pending queue holds it, it is not started again
\* and it does not run to completion.
CancelledStaysCancelled ==
    \A j \in JobIds :
        cancelOf[j] \in {"scheduled", "running"} =>
            /\ scheduled_tasks[j] = "cancelled"
            /\ j \notin schedule_jobs
            /\ j \notin finishedAfterCancel

\* C22: with Redis up and every manager connected to it, a get returns the
\* value of the latest set of the key (as set, or as Redis stores it) or
\* nothing: never a value that a later, completed set replaced.
GetSeesLastWrite ==
    (/\ lastOp.op = "get"
     /\ redisUp
     /\ \A m \in Managers : redis_client[m]
     /\ lastSet[lastOp.k].at # Absent)
        => lastOp.ret \in {lastSet[lastOp.k].value,
                           redis_encode(lastSet[lastOp.k].value), "None"}

\* reading the returned HH:MM string
DigitValue(c) == CHOOSE d \in 0 .. 9 : Digit[d + 1] = c
HourOf(hhmm) == DigitValue(hhmm[1]) * 10 + DigitValue(hhmm[2])
MinuteOf(hhmm) == DigitValue(hhmm[4]) * 10 + DigitValue(hhmm[5])

\* the base hours of the three priorities the claim names
ClaimedBase(priority) ==
    IF priority = "high" THEN 2 ELSE IF priority = "medium" THEN 4 ELSE 6

\* the hour for a keyword whose success rate counts as low or not
ClaimedHour(text, priority, lowRate) ==
    (ClaimedBase(priority) + (IF word_count(text) > 3 THEN -1 ELSE 0)
        + (IF lowRate THEN 2 ELSE 0)) % 24

\* a call whose keyword results are still what they were at the call
CallStands ==
    /\ lastCall.made
    /\ ~ changed
    /\ lastCall.priority \in {"high", "medium", "low"}

\* C23 as stated: +2 also for a keyword that has no prior results at all
\* (its success rate, by calculate_success_rate, is 0).
OptimalHourAsClaimed ==
    CallStands =>
        /\ HourOf(lastCall.ret) =
              ClaimedHour(lastCall.text, lastCall.priority,
                          history[lastCall.text] \in {"none", "poor"})
        /\ HourOf(lastCall.ret) \in 0 .. 23
        /\ MinuteOf(lastCall.ret) \in 0 .. 59

\* C23, amended: hour = (base + adjustment) mod 24 with base 2, 4, 6 for
\* high, medium, low, -1 for a keyword of more than 3 words, and +2 only for
\* a keyword that has stored results with a success rate below 50%; the hour
\* is in 0..23 and the minute in 0..59.
OptimalHourFollowsHistory ==
    CallStands =>
        /\ HourOf(lastCall.ret) =
              ClaimedHour(lastCall.text, lastCall.priority,
                          history[lastCall.text] = "poor")
        /\ Len(lastCall.ret) = 5
        /\ lastCall.ret[3] = ":"
        /\ HourOf(lastCall.ret) \in 0 .. 23
        /\ MinuteOf(lastCall.ret) \in 0 .. 59

\* a long keyword with poor results, high priority: 2 - 1 + 2
OptimalHourBothAdjustments ==
    /\ CallStands
    /\ lastCall.priority = "high"
    /\ word_count(lastCall.text) > 3
    /\ history[lastCall.text] = "poor"
    /\ HourOf(lastCall.ret) = 3

RECURSIVE Concat(_)
Concat(seqs) == IF seqs = <<>> THEN <<>> ELSE Head(seqs) \o Concat(Tail(seqs))

\* C24: the batches are consecutive slices of keyword_ids of batch_size ids
\* (the last may be smaller), every id in exactly one, and a later batch
\* first runs after the batch before it.
BatchesInOrder ==
    batch_input.called =>
        /\ Concat([b \in 1 .. Len(batch_jobs) |-> batch_jobs[b].batch])
              = batch_input.keyword_ids
        /\ \A b \in 1 .. Len(batch_jobs) :
              /\ batch_jobs[b].batch # <<>>
              /\ Len(batch_jobs[b].batch) <= batch_input.batch_size
              /\ b < Len(batch_jobs) =>
                    Len(batch_jobs[b].batch) = batch_input.batch_size
        /\ \A b \in 1 .. Len(batch_jobs) - 1 :
              batch_jobs[b].next_run < batch_jobs[b + 1].next_run

\* the numbers of the latest min(n, MetricsKept) of n runs, oldest first
LatestRuns(n) ==
    LET kept == IF n < MetricsKept THEN n ELSE MetricsKept
    IN  [i \in 1 .. kept |-> n - kept + i]

\* C25: the history of every keyword holds at most 10 entries, namely its
\* most recent min(n, 10) runs in chronological order (which also makes it
\* independent of the runs of other keywords).
HistoryIsLatestRuns ==
    \A k \in MetricKeywords :
        /\ Len(metrics_list[k]) <= MetricsKept
        /\ metrics_list[k] = LatestRuns(run_count[k])

\* C29: the pass reschedules a keyword with recorded runs exactly when the
\* success rate of its recorded runs (the last 10 at most) is below 60%.
RescheduledIffRollingRateLow ==
    lastPass.done =>
        \A k \in lastPass.ran :
            (k \in lastPass.rescheduled) <=> (k \in lastPass.low)

\* C28: enrich_business_data returns one record per input record in input
\* order, and a record lacks a field only where the step for that very field
\* failed (or had nothing to work on): a platform's profile when that
\* platform's search failed, the website data when the website analysis
\* failed, the category when the categorization failed.
EnrichDegradesFieldOnly ==
    /\ enrich_pc # "raised"
    /\ enrich_pc = "returned" =>
          /\ Len(enriched_results) = Len(enrich_input)
          /\ \A i \in 1 .. Len(enriched_results) :
                LET out == enriched_results[i]
                    f == enrich_faults[i]
                    rec == enrich_input[i]
                IN  /\ out.idx = i
                    /\ \A p \in Platforms :
                          (p \in out.social) <=>
                              (rec.title /\ f.search[p] = "found")
                    /\ out.website_data <=> (rec.website /\ ~ f.web)
                    /\ out.category <=> ~ f.cat

\* C21: on a cache hit no analysis pass runs and the stored record carries
\* the cached result with is_cached = true; on a miss the analysis runs
\* once and, when it returns, its result is in the cache under the key with
\* a TTL of 3600 s (in Redis, when the task reaches it) and the stored
\* record has is_cached = false.
AnalysisUsesCache ==
    lastRun.ran =>
        IF lastRun.hit
        THEN lastRun.passes = 0 /\ lastRun.stored = "cached"
        ELSE /\ lastRun.passes = 1
             /\ lastRun.analysed =>
                   /\ lastRun.stored = "fresh"
                   /\ lastRun.conn =>
                         /\ anRedis[lastRun.worker].has
                         /\ anRedis[lastRun.worker].ttl = AnalysisTtl

CollectorFailures == {"create", "stealth", "load", "wait", "scroll"}

\* C26: a collection run in which session creation, page load, the wait for
\* the feed or scrolling failed is never recorded as completed: the task
\* that called the collector goes on to a retry or to failed.
CollectorFailureFailsJob ==
    [][\A t \in TaskIds :
          (task[t].pc = "save" /\ task[t].fail \in CollectorFailures)
              => task'[t].pc # "completed"]_vars

\* C27: when scrolling or enrichment failed after the collector held k > 0
\* listings, the task that goes on to record the run stores those k
\* listings as rows of the keyword.
PartialResultsPersisted ==
    [][\A t \in TaskIds :
          (/\ task[t].pc = "save"
           /\ task[t].fail \in {"scroll", "enrich"}
           /\ task[t].gathered > 0
           /\ task'[t].pc = "completed")
              => task'[t].saved = task[t].gathered]_vars

\* C30: a keyword whose status is in_progress eventually has another
\* status, also when the task that runs for it is revoked with terminate or
\* its worker dies.
InProgressEnds ==
    \A k \in Keywords :
        (kwStatus[k] = "in_progress") ~> (kwStatus[k] # "in_progress")

====
